---- MODULE Spec2Model ----
(***************************************************************************)
(* Model of addon.py: the lookup route (subtitles), the background         *)
(* acquisition thread (worker), the provider search (search_english_sub),  *)
(* the Gemini translation helpers and the polling delivery route           *)
(* (serve_subs), with the cache directory as the only shared state.        *)
(*                                                                         *)
(* Strings are modelled structurally.  A multi-line string is the          *)
(* sequence of its lines (what str.split("\n") returns, so "" is one       *)
(* blank line and a trailing newline gives a trailing blank line).  A line *)
(* is a record [k, n, w]: k = "idx" (a cue number n), "time" (an SRT       *)
(* timing line, n names the timing) or "text" (the words w).  A word is a  *)
(* pair <<tag, length>>.  Identifiers (imdb id, hash, cache key, file      *)
(* name) are sequences of string tokens so that concatenation is real.     *)
(*                                                                         *)
(* What the outside world sends and answers (requests, provider answers,   *)
(* source documents, translation answers, I/O errors) is drawn from sets   *)
(* that depend on a profile: "search" is rich in requests and provider     *)
(* answers, "doc" in documents, translation answers and I/O errors, "keys" *)
(* in the ids that cache keys are derived from, and "small" keeps all of   *)
(* them few for the specifications with several threads.                   *)
(***************************************************************************)
EXTENDS Integers, Sequences, FiniteSets, TLC

\* ---------------------------------------------------------------------
\* Bounds of the model
\* ---------------------------------------------------------------------
MaxWorkers == 2
ServeWorkers == 1

\* ---------------------------------------------------------------------
\* Program constants
\* ---------------------------------------------------------------------
WrapWidth == 44
batch_size == 40
PollLimit == 60
BatchAttempts == 2
GeminiAttempts == 2

None == -1
NoStr == <<>>

\* ---------------------------------------------------------------------
\* Lines and strings
\* ---------------------------------------------------------------------
Idx(n) == [k |-> "idx", n |-> n, w |-> <<>>]
Time(n) == [k |-> "time", n |-> n, w |-> <<>>]
Text(ws) == [k |-> "text", n |-> 0, w |-> ws]
Blank == Text(<<>>)
EmptyStr == <<Blank>>

IsBlank(l) == l.k = "text" /\ l.w = <<>>

Front(s) == SubSeq(s, 1, Len(s) - 1)
Last(s) == s[Len(s)]

RECURSIVE StripLeft(_)
StripLeft(s) ==
  IF Len(s) > 1 /\ IsBlank(Head(s)) THEN StripLeft(Tail(s)) ELSE s

RECURSIVE StripRight(_)
StripRight(s) ==
  IF Len(s) > 1 /\ IsBlank(Last(s)) THEN StripRight(Front(s)) ELSE s

\* str.strip() on a multi-line string: leading and trailing blank lines go
Strip(s) == StripRight(StripLeft(s))

\* a + b on strings: the last line of a and the first line of b become one
StrConcat(a, b) ==
  IF IsBlank(Last(a)) THEN Front(a) \o b
  ELSE IF IsBlank(Head(b)) THEN a \o Tail(b)
  ELSE Front(a) \o <<Text(Last(a).w \o Head(b).w)>> \o Tail(b)

\* "\n".join(pieces): the pieces' lines one after the other
RECURSIVE JoinNL(_)
JoinNL(pieces) ==
  IF pieces = <<>> THEN EmptyStr
  ELSE IF Len(pieces) = 1 THEN pieces[1]
  ELSE pieces[1] \o JoinNL(Tail(pieces))

RECURSIVE FlattenWords(_)
FlattenWords(ls) ==
  IF ls = <<>> THEN <<>> ELSE Head(ls).w \o FlattenWords(Tail(ls))

\* ---------------------------------------------------------------------
\* Utils (get_file_hash, wrap_text)
\* ---------------------------------------------------------------------
DigitStr(n) == <<"0", "1", "2", "3", "4">>[n + 1]
Truthy(n) == n # None /\ n # 0

get_file_hash(imdb_id, season, episode, video_hash) ==
  LET base0 == imdb_id
      base1 == IF Truthy(season) /\ Truthy(episode)
               THEN base0 \o <<"_", "S", DigitStr(season), "E", DigitStr(episode)>>
               ELSE base0
  IN IF video_hash # NoStr THEN base1 \o <<"_">> \o video_hash ELSE base1

RECURSIVE SumLen(_)
SumLen(ws) == IF ws = <<>> THEN 0 ELSE Head(ws)[2] + SumLen(Tail(ws))

\* len() of a line of words joined by single spaces
LineLen(ws) == IF ws = <<>> THEN 0 ELSE SumLen(ws) + Len(ws) - 1

RECURSIVE WrapLoop(_, _, _, _)
WrapLoop(words, lines, cur, width) ==
  IF words = <<>> THEN (IF cur # <<>> THEN Append(lines, cur) ELSE lines)
  ELSE LET wd == Head(words)
       IN IF LineLen(cur) + wd[2] + (IF cur # <<>> THEN 1 ELSE 0) > width
          THEN WrapLoop(Tail(words), Append(lines, cur), <<wd>>, width)
          ELSE WrapLoop(Tail(words), lines, Append(cur, wd), width)

\* wrap_text(s, width): s is the words of the text, the result its lines
wrap_text(s, width) ==
  IF s = <<>> THEN <<s>> ELSE WrapLoop(s, <<>>, <<>>, width)

\* ---------------------------------------------------------------------
\* Module configuration (OS_API_KEY, GEMINI_API_KEY), read once at import
\* ---------------------------------------------------------------------
Configs == [os_key : BOOLEAN, gemini_key : BOOLEAN]

\* ---------------------------------------------------------------------
\* _parse_json_array_strict.  The raw answer is a JSON array of strings,
\* modelled as the sequence of its items (an item is its words).
\* ---------------------------------------------------------------------
Raise == [ok |-> FALSE, data |-> <<>>]
Return(d) == [ok |-> TRUE, data |-> d]

\* second try: re.split on '"\s*,\s*"' and "if p.strip()": an empty item
\* strictly inside the array leaves an empty part, which is dropped
LenientParts(items) ==
  LET keep == SelectSeq([i \in 1..Len(items) |-> i],
                        LAMBDA i : ~(items[i] = <<>> /\ 1 < i /\ i < Len(items)))
  IN [n \in 1..Len(keep) |-> items[keep[n]]]

parse_json_array_strict(items, expected_len) ==
  IF Len(items) = expected_len THEN Return(items)
  ELSE LET parts == LenientParts(items)
       IN IF Len(parts) = expected_len THEN Return(parts) ELSE Raise

\* ---------------------------------------------------------------------
\* translate_batch_gemini.  resps is what generate_content does on each
\* attempt: [exc |-> TRUE] or the returned array.
\* ---------------------------------------------------------------------
ApiExc == [exc |-> TRUE, items |-> <<>>]
ApiArr(items) == [exc |-> FALSE, items |-> items]

RECURSIVE GeminiAttempt(_, _, _)
GeminiAttempt(texts, resps, attempt) ==
  IF attempt > GeminiAttempts THEN [ok |-> FALSE, data |-> <<>>, calls |-> GeminiAttempts]
  ELSE LET r == resps[attempt]
           p == IF r.exc THEN Raise ELSE parse_json_array_strict(r.items, Len(texts))
       IN IF p.ok THEN [ok |-> TRUE, data |-> p.data, calls |-> attempt]
          ELSE GeminiAttempt(texts, resps, attempt + 1)

\* the result is falsy (ok = FALSE) for None; calls counts generate_content.
\* sanitize_input_lines only turns line breaks into spaces and trims, which
\* leaves the words of a text as they are
translate_batch_gemini(cfg, texts, resps) ==
  IF ~cfg.gemini_key THEN [ok |-> FALSE, data |-> <<>>, calls |-> 0]
  ELSE GeminiAttempt(texts, resps, 1)

\* ---------------------------------------------------------------------
\* _one_shot_try / translate_srt_one_shot.  The falsy results None and ""
\* are both EmptyStr.
\* ---------------------------------------------------------------------
HasTimestamp(s) == \E i \in 1..Len(s) : s[i].k = "time"

OneShotExc == [exc |-> TRUE, text |-> EmptyStr]
OneShotText(t) == [exc |-> FALSE, text |-> t]

one_shot_try(resp) ==
  IF resp.exc THEN EmptyStr
  ELSE LET out == Strip(resp.text)
       IN IF HasTimestamp(out) THEN out ELSE out

Candidates == <<"GEMINI_MODEL", "models/gemini-flash-latest", "models/gemini-2.0-flash-lite">>

RECURSIVE OneShotLoop(_, _)
OneShotLoop(resps, m) ==
  IF m > Len(Candidates) THEN [out |-> EmptyStr, calls |-> Len(Candidates)]
  ELSE LET out == one_shot_try(resps[m])
       IN IF out # EmptyStr THEN [out |-> out, calls |-> m]
          ELSE OneShotLoop(resps, m + 1)

translate_srt_one_shot(cfg, srt_text, resps) ==
  IF ~cfg.gemini_key THEN [out |-> EmptyStr, calls |-> 0]
  ELSE OneShotLoop(resps, 1)

\* ---------------------------------------------------------------------
\* OpenSubtitles: get_download_link and search_english_sub.
\* A provider answer is [exc, total_count, data]; an item of data is
\* [file_id, file_name]; a file name or hint is a sequence of tokens.
\* env = [hash, cat : answers, link : [file_id -> BOOLEAN]].
\* ---------------------------------------------------------------------
ProvExc == [exc |-> TRUE, total_count |-> 0, data |-> <<>>]
ProvOk(n, d) == [exc |-> FALSE, total_count |-> n, data |-> d]

\* r.json().get("link"), None (NoStr) when the request fails
get_download_link(file_id, env) ==
  IF env.link[file_id] THEN <<"dl", file_id>> ELSE NoStr

IsSubstr(k, s) ==
  \E i \in 0..(Len(s) - Len(k)) : SubSeq(s, i + 1, i + Len(k)) = k

\* name.replace('.', ' ').replace('-', ' ').lower()
clean_filename(name) ==
  [i \in 1..Len(name) |-> IF name[i] \in {".", "-"} THEN " " ELSE name[i]]

ReleaseKeywords ==
  << <<"web">>, <<"web", "rip">>, <<"web", "-", "dl">>, <<"hdtv">>,
     <<"bluray">>, <<"amzn">>, <<"nf">>, <<"ntb">> >>

RECURSIVE FlattenTokens(_)
FlattenTokens(ks) ==
  IF ks = <<>> THEN <<>> ELSE Head(ks) \o FlattenTokens(Tail(ks))

RECURSIVE FirstMatch(_, _, _)
FirstMatch(results, keywords, i) ==
  IF i > Len(results) THEN 0
  ELSE IF \A j \in 1..Len(keywords) : IsSubstr(keywords[j], results[i].file_name)
       THEN i
       ELSE FirstMatch(results, keywords, i + 1)

SearchResult(url, method, calls) == [url |-> url, method |-> method, calls |-> calls]

\* a hash tier that wants more than one match
HashTierOffByOne(video_hash, env) ==
  IF video_hash = NoStr THEN SearchResult(NoStr, <<>>, <<>>)
  ELSE IF env.hash.exc THEN SearchResult(NoStr, <<>>, <<"hash">>)
  ELSE IF env.hash.total_count > 1 /\ env.hash.data # <<>>
       THEN LET dl == get_download_link(env.hash.data[1].file_id, env)
            IN IF dl # NoStr
               THEN SearchResult(dl, <<"Hash Match">>, <<"hash", "link">>)
               ELSE SearchResult(NoStr, <<>>, <<"hash", "link">>)
       ELSE SearchResult(NoStr, <<>>, <<"hash">>)

\* tier 1 of search_english_sub: the moviehash query
HashTier(video_hash, env) ==
  IF video_hash = NoStr THEN SearchResult(NoStr, <<>>, <<>>)
  ELSE IF env.hash.exc THEN SearchResult(NoStr, <<>>, <<"hash">>)
  ELSE IF env.hash.total_count > 0
       THEN IF env.hash.data = <<>>
            THEN SearchResult(NoStr, <<>>, <<"hash">>)
            ELSE LET dl == get_download_link(env.hash.data[1].file_id, env)
                 IN IF dl # NoStr
                    THEN SearchResult(dl, <<"Hash Match">>, <<"hash", "link">>)
                    ELSE SearchResult(NoStr, <<>>, <<"hash", "link">>)
       ELSE SearchResult(NoStr, <<>>, <<"hash">>)

\* tiers 2 and 3: the IMDB query and the refinement by release
CatalogTier(filename_hint, env) ==
  IF env.cat.exc THEN SearchResult(NoStr, <<"Not Found">>, <<"catalog">>)
  ELSE IF env.cat.total_count = 0 THEN SearchResult(NoStr, <<"Not Found">>, <<"catalog">>)
  ELSE IF env.cat.data = <<>> THEN SearchResult(NoStr, <<"Not Found">>, <<"catalog">>)
  ELSE LET results == env.cat.data
           hint_clean == clean_filename(filename_hint)
           keywords == SelectSeq(ReleaseKeywords, LAMBDA k : IsSubstr(k, hint_clean))
           m == IF filename_hint # NoStr THEN FirstMatch(results, keywords, 1) ELSE 0
           best == IF m > 0 THEN results[m] ELSE results[1]
           method == IF m > 0 THEN <<"Release Match">> \o FlattenTokens(keywords)
                     ELSE <<"IMDB Generic">>
           dl == get_download_link(best.file_id, env)
       IN IF dl # NoStr THEN SearchResult(dl, method, <<"catalog", "link">>)
          ELSE SearchResult(NoStr, <<"Not Found">>, <<"catalog", "link">>)

IsImdbNumber(imdb_id) ==
  LET rest == SelectSeq(imdb_id, LAMBDA t : t # "tt")
  IN Len(rest) = 1 /\ rest[1] \in {"0", "1", "2", "3", "4"}

search_english_sub(cfg, imdb_id, season, episode, video_hash, filename_hint, env) ==
  IF ~cfg.os_key THEN SearchResult(NoStr, <<"No API Key">>, <<>>)
  ELSE IF ~IsImdbNumber(imdb_id) THEN SearchResult(NoStr, <<"Bad ID">>, <<>>)
  ELSE LET h == HashTier(video_hash, env)
       IN IF h.url # NoStr THEN h
          ELSE LET c == CatalogTier(filename_hint, env)
               IN SearchResult(c.url, c.method, h.calls \o c.calls)

\* ---------------------------------------------------------------------
\* The pieces of worker() that compute on the document
\* ---------------------------------------------------------------------
\* re.split(r"\n\n+", content) and block.strip().split("\n"): the blocks
\* are the maximal runs of non-blank lines
BlocksOf(lines) ==
  LET at == [i \in 1..Len(lines) |-> i]
      first == SelectSeq(at, LAMBDA i : ~IsBlank(lines[i])
                                        /\ (i = 1 \/ IsBlank(lines[i - 1])))
      last == SelectSeq(at, LAMBDA i : ~IsBlank(lines[i])
                                       /\ (i = Len(lines) \/ IsBlank(lines[i + 1])))
  IN [n \in 1..Len(first) |-> SubSeq(lines, first[n], last[n])]

\* subs: a block of at least 3 lines gives head (2 lines) and text
ParseSubs(content) ==
  LET blocks == SelectSeq(BlocksOf(content), LAMBDA b : Len(b) >= 3)
  IN [i \in 1..Len(blocks) |->
        [head |-> SubSeq(blocks[i], 1, 2),
         text |-> FlattenWords(SubSeq(blocks[i], 3, Len(blocks[i])))]]

BannerText(method, mode) ==
  Text(<< <<"[AI Sync:", 0>> >> \o [i \in 1..Len(method) |-> <<method[i], 0>>]
       \o << <<mode, 0>> >>)

\* a one-shot banner that names the other mode
OneShotBannerAsBatch(method) == <<Idx(0), Time(0), BannerText(method, "mode=batch]"), Blank, Blank>>

\* "0\n00:00:01,000 --> 00:00:05,000\n[AI Sync: ... | mode=one-shot]\n\n"
OneShotBanner(method) == <<Idx(0), Time(0), BannerText(method, "mode=one-shot]"), Blank, Blank>>

\* "0\n00:00:01,000 --> 00:00:05,000\n[AI Sync: ... | mode=batch]\n"
BatchBanner(method) == <<Idx(0), Time(0), BannerText(method, "mode=batch]"), Blank>>

\* f"{sub['head']}\n{line_pt}\n" with line_pt = wrap_text(line_pt, width=44)
CuePiece(head, line_pt) ==
  LET wrapped == wrap_text(line_pt, WrapWidth)
  IN head \o [i \in 1..Len(wrapped) |-> Text(wrapped[i])] \o <<Blank>>

\* "for attempt in range(2): texts_pt = translate_batch_gemini(texts_en)":
\* resps are the answers generate_content gives, GeminiAttempts per call;
\* got lists what was received (-1 an error, else the number of items)
RECURSIVE BatchTry(_, _, _, _, _, _)
BatchTry(cfg, texts_en, resps, attempt, calls, got) ==
  IF attempt > BatchAttempts THEN [ok |-> FALSE, data |-> <<>>, calls |-> calls, got |-> got]
  ELSE LET mine == SubSeq(resps, (attempt - 1) * GeminiAttempts + 1, attempt * GeminiAttempts)
           t == translate_batch_gemini(cfg, texts_en, mine)
           seen == [j \in 1..t.calls |-> IF mine[j].exc THEN -1 ELSE Len(mine[j].items)]
       IN IF t.ok /\ t.data # <<>>
          THEN [ok |-> TRUE, data |-> t.data, calls |-> calls + t.calls, got |-> got \o seen]
          ELSE BatchTry(cfg, texts_en, resps, attempt + 1, calls + t.calls, got \o seen)

\* one iteration of "for i in range(0, len(subs), batch_size)"
BatchIteration(cfg, chunk, resps) ==
  LET texts_en == [j \in 1..Len(chunk) |-> chunk[j].text]
      t == BatchTry(cfg, texts_en, resps, 1, 0, <<>>)
      texts_pt == IF t.ok THEN t.data ELSE texts_en
  IN [pieces |-> [j \in 1..Len(chunk) |->
                    CuePiece(chunk[j].head,
                             IF j <= Len(texts_pt) THEN texts_pt[j] ELSE chunk[j].text)],
      calls |-> t.calls,
      log |-> [sent |-> Len(texts_en), got |-> t.got, translated |-> t.ok]]

Min(a, b) == IF a < b THEN a ELSE b

\* ---------------------------------------------------------------------
\* Inputs: what the outside world can send and answer.  A profile names
\* how rich the inputs of a specification are.
\* ---------------------------------------------------------------------
EnWord(n) == <<"en", n>>
PtWord(n) == <<"pt", n>>

\* a source SRT of K cues, each with the words ws
SrcCue(i, ws) == <<Idx(i), Time(i), Text(ws), Blank>>

SrcDoc(K, ws) == [n \in 1..(4 * K) |-> SrcCue((n + 3) \div 4, ws)[((n - 1) % 4) + 1]]

ShortText == <<EnWord(20)>>
TwoLineText == <<EnWord(20), EnWord(30)>>
LongText == <<EnWord(5), EnWord(50)>>
WideText == <<EnWord(50), EnWord(5)>>

SrcDocs(profile) ==
  IF profile # "doc" THEN {SrcDoc(1, ShortText)}
  ELSE {SrcDoc(1, ShortText), SrcDoc(2, TwoLineText), SrcDoc(1, LongText),
        SrcDoc(1, WideText), SrcDoc(batch_size + 1, ShortText)}

\* what a translator that does its job returns for a text / a document
TranslateWords(ws) == [j \in 1..Len(ws) |-> PtWord(ws[j][2])]
TranslateDoc(d) ==
  [i \in 1..Len(d) |-> IF d[i].k = "text" THEN Text(TranslateWords(d[i].w)) ELSE d[i]]

RECURSIVE LastBlankBefore(_, _)
LastBlankBefore(d, i) ==
  IF i <= 1 THEN 1 ELSE IF IsBlank(d[i]) THEN i ELSE LastBlankBefore(d, i - 1)

\* a translated document that lost its last cue
DropLastCue(d) == 
  LET s == Strip(d) IN SubSeq(s, 1, LastBlankBefore(s, Len(s)))

Apology == <<Text(<<PtWord(7), PtWord(9)>>)>>

OneShotAnswers(profile, content) ==
  IF profile # "doc" THEN {OneShotExc, OneShotText(TranslateDoc(content))}
  ELSE {OneShotExc, OneShotText(EmptyStr), OneShotText(TranslateDoc(content)),
        OneShotText(DropLastCue(TranslateDoc(content))), OneShotText(Apology)}

InsertAt(seq, i, x) == SubSeq(seq, 1, i - 1) \o <<x>> \o SubSeq(seq, i, Len(seq))

\* answers to a batch: an error, the translation, the translation short of
\* its last item, the translation with an empty item put in second place
BatchAnswers(texts) ==
  LET good == [j \in 1..Len(texts) |-> TranslateWords(texts[j])]
  IN [exc |-> ApiExc, good |-> ApiArr(good), short |-> ApiArr(Front(good)),
      padded |-> ApiArr(IF Len(good) >= 2 THEN InsertAt(good, 2, <<>>) ELSE good)]

\* how the translation service behaves during one batch: the kind of each
\* of its answers, in the order asked
BatchScenarios(profile) ==
  IF profile # "doc" THEN {<<"good", "good", "good", "good">>}
  ELSE {<<"good", "good", "good", "good">>, <<"exc", "exc", "exc", "exc">>,
        <<"short", "short", "short", "short">>, <<"padded", "padded", "padded", "padded">>,
        <<"exc", "good", "good", "good">>, <<"short", "exc", "good", "good">>,
        <<"exc", "short", "exc", "padded">>}

FileIds == {"f1", "f2"}
HintWeb == <<"show", ".", "web", "-", "dl", ".", "x264">>
NameWeb == <<"show", ".", "web", ".", "x264">>
NameHdtv == <<"show", ".", "hdtv">>

Item(id, name) == [file_id |-> id, file_name |-> name]

ProviderAnswers ==
  {ProvExc, ProvOk(0, <<>>), ProvOk(1, <<Item("f1", NameWeb)>>),
   ProvOk(2, <<Item("f2", NameHdtv), Item("f1", NameWeb)>>)}

Env(h, c, l) == [hash |-> h, cat |-> c, link |-> l]

\* whether open() and write() can fail with an OSError
IoOutcomes(profile) == IF profile = "doc" THEN {"ok", "err"} ELSE {"ok"}

ConfigsOf(profile) ==
  IF profile = "doc" THEN {c \in Configs : c.os_key}
  ELSE {c \in Configs : c.gemini_key}

\* what the provider answers during one search: everything in the search
\* profile, else a match with its link, a provider error, a refused link
Envs(profile) ==
  IF profile = "search"
  THEN [hash : ProviderAnswers, cat : ProviderAnswers, link : [FileIds -> BOOLEAN]]
  ELSE {Env(ProvOk(1, <<Item("f1", NameWeb)>>), ProvOk(1, <<Item("f1", NameWeb)>>),
            [f \in FileIds |-> TRUE]),
        Env(ProvExc, ProvExc, [f \in FileIds |-> TRUE]),
        Env(ProvOk(1, <<Item("f1", NameWeb)>>), ProvOk(1, <<Item("f1", NameWeb)>>),
            [f \in FileIds |-> FALSE])}

\* a lookup: the parts of <id> split on ":" and the parsed <extra>
IsDigit(t) == Len(t) = 1 /\ t[1] \in {"0", "1", "2", "3", "4"}
IntOf(t) == CHOOSE n \in 0..4 : DigitStr(n) = t[1]

Req(parts, vh, fn) == [parts |-> parts, videoHash |-> vh, filename |-> fn]

\* the ids of a film, of episodes and specials of a series, of a season
KeyParts ==
  {<< <<"tt", "1">> >>, << <<"tt", "2">> >>,
   << <<"tt", "1">>, <<"1">> >>,
   << <<"tt", "1">>, <<"0">>, <<"1">> >>, << <<"tt", "1">>, <<"0">>, <<"2">> >>,
   << <<"tt", "1">>, <<"1">>, <<"0">> >>, << <<"tt", "1">>, <<"1">>, <<"2">> >>,
   << <<"tt", "1">>, <<"2">>, <<"1">> >>}

Requests(profile) ==
  IF profile = "keys"
  THEN {Req(parts, vh, NoStr) : parts \in KeyParts, vh \in {NoStr, <<"h1">>}}
  ELSE IF profile = "search"
  THEN {Req(<< <<"tt", "1">>, <<"1">>, <<"2">> >>, <<"h1">>, HintWeb),
        Req(<< <<"tt", "1">> >>, NoStr, <<"show">>),
        Req(<< <<"tt", "1">> >>, NoStr, NoStr),
        Req(<< <<"tt", "x">> >>, NoStr, NoStr)}
  ELSE IF profile = "doc"
  THEN {Req(<< <<"tt", "1">>, <<"1">>, <<"2">> >>, <<"h1">>, HintWeb)}
  ELSE {Req(<< <<"tt", "1">>, <<"1">>, <<"2">> >>, <<"h1">>, HintWeb),
        Req(<< <<"tt", "x">> >>, NoStr, NoStr)}

ParseSeason(parts, n) ==
  IF Len(parts) > n /\ IsDigit(parts[n + 1]) THEN IntOf(parts[n + 1]) ELSE None

FinalName(cache_key) == cache_key \o <<"_translated.srt">>

KeyOfReq(r) ==
  get_file_hash(r.parts[1], ParseSeason(r.parts, 1), ParseSeason(r.parts, 2), r.videoHash)

FileNames == {FinalName(KeyOfReq(r)) : r \in Requests("search")}

\* ---------------------------------------------------------------------
\* State
\* ---------------------------------------------------------------------
VARIABLES
  cfg,     \* OS_API_KEY / GEMINI_API_KEY present
  files,   \* the cache directory: per file name, presence and content
  wk,      \* the worker threads started by subtitles()
  sv       \* the serve_subs() requests

vars == <<cfg, files, wk, sv>>

NoEnv == [hash |-> ProvExc, cat |-> ProvExc, link |-> [f \in FileIds |-> FALSE]]

NoFile == [exists |-> FALSE, content |-> EmptyStr, opens |-> 0]

Unborn ==
  [pc |-> "unborn", imdb_id |-> NoStr, season |-> None, episode |-> None,
   video_hash |-> NoStr, filename_hint |-> NoStr, cache_key |-> NoStr,
   desc_url |-> NoStr, url_en |-> NoStr, method |-> <<>>, content |-> EmptyStr,
   out |-> EmptyStr, i |-> 0, final_srt_content |-> <<>>, opens |-> 0,
   blog |-> <<>>, seen |-> NoEnv, calls |-> <<>>, end |-> "none"]

\* before: how the previous request for the same file name was answered
Idle ==
  [pc |-> "idle", filename |-> NoStr, polls |-> 0, present_at_call |-> FALSE,
   kind |-> "none", status |-> 0, body |-> EmptyStr, before |-> "none"]

InitFor(W, S, profile) ==
  /\ cfg \in ConfigsOf(profile)
  /\ files = [f \in FileNames |-> NoFile]
  /\ wk = [w \in 1..W |-> Unborn]
  /\ sv = [s \in 1..S |-> Idle]

\* an existence test that never sees the file
path_exists_never(fs, name) == FALSE

\* os.path.exists(path)
path_exists(fs, name) == fs[name].exists

\* open(path, "w"): creates the file or truncates it
open_w(fs, name) ==
  [fs EXCEPT ![name] = [exists |-> TRUE, content |-> EmptyStr, opens |-> @.opens + 1]]

\* the buffered data reaches the file
flush(fs, name, data) == [fs EXCEPT ![name].content = data]

\* ---------------------------------------------------------------------
\* subtitles(): parse the request, start the worker thread, answer
\* ---------------------------------------------------------------------
\* "url": f"{host}/static_subs/{cache_key}_translated.srt", without the host
DescriptorUrl(cache_key) == <<"/static_subs/">> \o cache_key \o <<"_translated.srt">>

\* @app.route("/static_subs/<filename>"): the filename of a url, NoStr when
\* the url is not of this route
serve_route(url) ==
  IF url # <<>> /\ Head(url) = "/static_subs/" THEN Tail(url) ELSE NoStr

\* a lookup whose descriptor names the file after the imdb id alone
LookupOtherName(w, profile) ==
  /\ wk[w].pc = "unborn"
  /\ \A v \in 1..(w - 1) : wk[v].pc # "unborn"
  /\ \E r \in Requests(profile) :
       LET imdb_id == r.parts[1]
           season == ParseSeason(r.parts, 1)
           episode == ParseSeason(r.parts, 2)
           cache_key == get_file_hash(imdb_id, season, episode, r.videoHash)
       IN wk' = [wk EXCEPT ![w] =
                   [@ EXCEPT !.pc = "check", !.imdb_id = imdb_id, !.season = season,
                             !.episode = episode, !.video_hash = r.videoHash,
                             !.filename_hint = r.filename, !.cache_key = cache_key,
                             !.desc_url = DescriptorUrl(imdb_id)]]
  /\ UNCHANGED <<cfg, files, sv>>

\* a lookup that answers only once the artifact is in the directory
LookupWaits(w, profile) ==
  /\ wk[w].pc = "unborn"
  /\ \A v \in 1..(w - 1) : wk[v].pc # "unborn"
  /\ \E r \in Requests(profile) :
       LET imdb_id == r.parts[1]
           season == ParseSeason(r.parts, 1)
           episode == ParseSeason(r.parts, 2)
           cache_key == get_file_hash(imdb_id, season, episode, r.videoHash)
       IN /\ path_exists(files, FinalName(cache_key))
          /\ wk' = [wk EXCEPT ![w] =
                   [@ EXCEPT !.pc = "check", !.imdb_id = imdb_id, !.season = season,
                             !.episode = episode, !.video_hash = r.videoHash,
                             !.filename_hint = r.filename, !.cache_key = cache_key,
                             !.desc_url = DescriptorUrl(cache_key)]]
  /\ UNCHANGED <<cfg, files, sv>>

Lookup(w, profile) ==
  /\ wk[w].pc = "unborn"
  /\ \A v \in 1..(w - 1) : wk[v].pc # "unborn"
  /\ \E r \in Requests(profile) :
       LET imdb_id == r.parts[1]
           season == ParseSeason(r.parts, 1)
           episode == ParseSeason(r.parts, 2)
           cache_key == get_file_hash(imdb_id, season, episode, r.videoHash)
       IN wk' = [wk EXCEPT ![w] =
                   [@ EXCEPT !.pc = "check", !.imdb_id = imdb_id, !.season = season,
                             !.episode = episode, !.video_hash = r.videoHash,
                             !.filename_hint = r.filename, !.cache_key = cache_key,
                             !.desc_url = DescriptorUrl(cache_key)]]
  /\ UNCHANGED <<cfg, files, sv>>

\* ---------------------------------------------------------------------
\* worker()
\* ---------------------------------------------------------------------
final_path(w) == FinalName(wk[w].cache_key)

Finish(rec, how) == [rec EXCEPT !.pc = "done", !.end = how]

\* the start of the batch fallback: subs and the banner
EnterBatch(rec) ==
  [rec EXCEPT !.pc = IF Len(ParseSubs(rec.content)) = 0 THEN "b_open" ELSE "batch",
              !.i = 0,
              !.final_srt_content = <<BatchBanner(rec.method)>>,
              !.out = JoinNL(<<BatchBanner(rec.method)>>)]

\* "if os.path.exists(final_path): return"
WorkerCheck(w) ==
  /\ wk[w].pc = "check"
  /\ wk' = [wk EXCEPT ![w] = IF path_exists(files, final_path(w))
                             THEN Finish(@, "exists")
                             ELSE [@ EXCEPT !.pc = "search"]]
  /\ UNCHANGED <<cfg, files, sv>>

\* "url_en, method = search_english_sub(...); if not url_en: return"
AfterSearch(rec, c, env) ==
  LET r == search_english_sub(c, rec.imdb_id, rec.season, rec.episode,
                              rec.video_hash, rec.filename_hint, env)
      found == [rec EXCEPT !.method = r.method, !.url_en = r.url,
                           !.seen = env, !.calls = r.calls]
  IN IF r.url = NoStr THEN Finish(found, "nosrc") ELSE [found EXCEPT !.pc = "download"]

WorkerSearch(w, profile) ==
  /\ wk[w].pc = "search"
  /\ \E env \in Envs(profile) :
       \E rec \in {AfterSearch(wk[w], cfg, env)} :
         wk' = [wk EXCEPT ![w] = rec]
  /\ UNCHANGED <<cfg, files, sv>>

\* a worker that creates its file before it has the source
WorkerDownloadTouches(w, profile) ==
  /\ wk[w].pc = "download"
  /\ \/ /\ wk' = [wk EXCEPT ![w] = Finish(@, "dlfail")]
        /\ files' = open_w(files, final_path(w))
     \/ /\ \E d \in SrcDocs(profile) :
             wk' = [wk EXCEPT ![w] = [@ EXCEPT !.pc = "oneshot", !.content = d]]
        /\ files' = files
  /\ UNCHANGED <<cfg, sv>>

\* "r = session.get(url_en, timeout=25) ... except: return"
WorkerDownload(w, profile) ==
  /\ wk[w].pc = "download"
  /\ \/ wk' = [wk EXCEPT ![w] = Finish(@, "dlfail")]
     \/ \E d \in SrcDocs(profile) :
          wk' = [wk EXCEPT ![w] = [@ EXCEPT !.pc = "oneshot", !.content = d]]
  /\ UNCHANGED <<cfg, files, sv>>

\* "srt_pt = translate_srt_one_shot(content); if srt_pt: banner = ..."
AfterOneShot(rec, c, resps) ==
  LET r == translate_srt_one_shot(c, rec.content, resps)
  IN IF r.out # EmptyStr
     THEN [rec EXCEPT !.pc = "os_open",
                      !.out = StrConcat(OneShotBanner(rec.method), r.out)]
     ELSE EnterBatch(rec)

WorkerOneShot(w, profile) ==
  /\ wk[w].pc = "oneshot"
  /\ \E answers \in {OneShotAnswers(profile, wk[w].content)} :
       \E resps \in [1..Len(Candidates) -> answers] :
         \E rec \in {AfterOneShot(wk[w], cfg, resps)} :
           wk' = [wk EXCEPT ![w] = rec]
  /\ UNCHANGED <<cfg, files, sv>>

\* "with open(final_path, "w", encoding="utf-8") as f": the open itself,
\* on either path; an OSError leaves the directory alone
WorkerOpen(w, profile) ==
  /\ wk[w].pc \in {"os_open", "b_open"}
  /\ \/ /\ files' = open_w(files, final_path(w))
        /\ wk' = [wk EXCEPT ![w] = [@ EXCEPT !.pc = IF @ = "os_open" THEN "os_write"
                                                     ELSE "b_write",
                                            !.opens = @ + 1]]
     \/ /\ "err" \in IoOutcomes(profile)
        /\ files' = files
        /\ \E rec \in {IF wk[w].pc = "os_open" THEN EnterBatch(wk[w])
                       ELSE Finish(wk[w], "writefail")} :
             wk' = [wk EXCEPT ![w] = rec]
  /\ UNCHANGED <<cfg, sv>>

\* the writer's buffer is flushed before the file is closed: a proper
\* prefix of the document is in the file
WorkerFlush(w) ==
  /\ wk[w].pc \in {"os_write", "b_write"}
  /\ Len(wk[w].out) >= 2
  /\ LET part == SubSeq(wk[w].out, 1, Len(wk[w].out) \div 2)
     IN /\ files[final_path(w)].content # part
        /\ files' = flush(files, final_path(w), part)
  /\ UNCHANGED <<cfg, wk, sv>>

\* "f.write(...)" and the close at the end of the with block
WorkerWrite(w, profile) ==
  /\ wk[w].pc \in {"os_write", "b_write"}
  /\ \/ /\ files' = flush(files, final_path(w), wk[w].out)
        /\ wk' = [wk EXCEPT ![w] = Finish(@, IF @.pc = "os_write" THEN "oneshot"
                                             ELSE "batch")]
     \/ /\ "err" \in IoOutcomes(profile)
        /\ files' = files
        /\ \E rec \in {IF wk[w].pc = "os_write" THEN EnterBatch(wk[w])
                       ELSE Finish(wk[w], "writefail")} :
             wk' = [wk EXCEPT ![w] = rec]
  /\ UNCHANGED <<cfg, sv>>

\* the worker's locals after one pass of the batch loop, the document
\* joined after the last pass
AfterBatch(rec, c, kinds) ==
  LET subs == ParseSubs(rec.content)
      chunk == SubSeq(subs, rec.i + 1, Min(rec.i + batch_size, Len(subs)))
      answers == BatchAnswers([j \in 1..Len(chunk) |-> chunk[j].text])
      resps == [n \in 1..(BatchAttempts * GeminiAttempts) |-> answers[kinds[n]]]
      r == BatchIteration(c, chunk, resps)
      all == rec.final_srt_content \o r.pieces
      last == rec.i + batch_size >= Len(subs)
  IN [rec EXCEPT !.i = @ + batch_size,
                 !.final_srt_content = all,
                 !.blog = Append(@, r.log),
                 !.out = IF last THEN JoinNL(all) ELSE @,
                 !.pc = IF last THEN "b_open" ELSE "batch"]

\* one pass of "for i in range(0, len(subs), batch_size)"
WorkerBatch(w, profile) ==
  /\ wk[w].pc = "batch"
  /\ \E kinds \in BatchScenarios(profile) :
       \E rec \in {AfterBatch(wk[w], cfg, kinds)} :
         wk' = [wk EXCEPT ![w] = rec]
  /\ UNCHANGED <<cfg, files, sv>>

WorkerStep(w, profile) ==
  \/ Lookup(w, profile)
  \/ WorkerCheck(w)
  \/ WorkerSearch(w, profile)
  \/ WorkerDownload(w, profile)
  \/ WorkerOneShot(w, profile)
  \/ WorkerOpen(w, profile)
  \/ WorkerFlush(w)
  \/ WorkerWrite(w, profile)
  \/ WorkerBatch(w, profile)

\* ---------------------------------------------------------------------
\* serve_subs()
\* ---------------------------------------------------------------------
\* "1\n00:00:01,000 --> 00:00:10,000\nTraduzindo com IA...\nAguarde ...\n\n"
Placeholder ==
  <<Idx(1), Time(0), Text(<< <<"Traduzindo", 10>>, <<"com", 3>>, <<"IA...", 5>> >>),
    Text(<< <<"Aguarde", 7>>, <<"alguns", 6>>, <<"segundos", 8>> >>), Blank, Blank>>

\* the answer send_from_directory would give for a missing file
NotFoundResponse(rec) ==
  [rec EXCEPT !.pc = "done", !.kind = "error", !.status = 404, !.body = EmptyStr]

PlaceholderResponse(rec) ==
  [rec EXCEPT !.pc = "done", !.kind = "placeholder", !.status = 200, !.body = Placeholder]

FileResponse(rec, data) ==
  [rec EXCEPT !.pc = "done", !.kind = "file", !.status = 200, !.body = data]

ServeStart(s, profile) ==
  /\ sv[s].pc \in {"idle", "done"}
  /\ \E fn \in {serve_route(DescriptorUrl(KeyOfReq(r))) : r \in Requests(profile)} :
       sv' = [sv EXCEPT ![s] = [Idle EXCEPT !.pc = "poll", !.filename = fn,
                                            !.present_at_call = path_exists(files, fn),
                                            !.before = IF sv[s].filename = fn
                                                       THEN sv[s].kind ELSE "none"]]
  /\ UNCHANGED <<cfg, files, wk>>

\* a loop that saves the placeholder it answers with
ServeCheckPersists(s) ==
  /\ sv[s].pc = "poll"
  /\ sv' = [sv EXCEPT ![s] =
              IF path_exists(files, @.filename)
              THEN FileResponse([@ EXCEPT !.polls = @ + 1], files[@.filename].content)
              ELSE IF @.polls + 1 >= PollLimit
                   THEN PlaceholderResponse([@ EXCEPT !.polls = @ + 1])
                   ELSE [@ EXCEPT !.polls = @ + 1]]
  /\ files' = IF ~path_exists(files, sv[s].filename) /\ sv[s].polls + 1 >= PollLimit
              THEN flush(open_w(files, sv[s].filename), sv[s].filename, Placeholder)
              ELSE files
  /\ UNCHANGED <<cfg, wk>>

\* a loop that gives up on its last pass without looking at the directory
ServeCheckGivesUpEarly(s) ==
  /\ sv[s].pc = "poll"
  /\ sv' = [sv EXCEPT ![s] =
              IF @.polls + 1 >= PollLimit
              THEN PlaceholderResponse([@ EXCEPT !.polls = @ + 1])
              ELSE IF path_exists(files, @.filename)
                   THEN FileResponse([@ EXCEPT !.polls = @ + 1], files[@.filename].content)
                   ELSE [@ EXCEPT !.polls = @ + 1]]
  /\ UNCHANGED <<cfg, files, wk>>

\* one pass of "for _ in range(60)": the check and, when the file is
\* absent, the sleep; after the last sleep the placeholder is returned
ServeCheck(s) ==
  /\ sv[s].pc = "poll"
  /\ sv' = [sv EXCEPT ![s] =
              IF path_exists(files, @.filename)
              THEN FileResponse([@ EXCEPT !.polls = @ + 1], files[@.filename].content)
              ELSE IF @.polls + 1 >= PollLimit
                   THEN PlaceholderResponse([@ EXCEPT !.polls = @ + 1])
                   ELSE [@ EXCEPT !.polls = @ + 1]]
  /\ UNCHANGED <<cfg, files, wk>>

ServeStep(s, profile) == ServeStart(s, profile) \/ ServeCheck(s)

\* ---------------------------------------------------------------------
\* Specifications
\* ---------------------------------------------------------------------
\* lookups racing each other
Init == InitFor(MaxWorkers, 0, "small")
Next == \E w \in 1..MaxWorkers : WorkerStep(w, "small")
Spec == Init /\ [][Next]_vars

\* workers and the requests for their files.  serve_subs() writes nothing
\* that another request reads, so the requests are taken one at a time
InitServe == InitFor(ServeWorkers, 1, "small")
NextServe ==
  \/ \E w \in 1..ServeWorkers : WorkerStep(w, "small")
  \/ ServeStep(1, "small")
SpecServe == InitServe /\ [][NextServe]_vars

\* one worker on the full range of documents and translation answers
InitDoc == InitFor(1, 0, "doc")
NextDoc == WorkerStep(1, "doc")
SpecDoc == InitDoc /\ [][NextDoc]_vars

\* one worker on the full range of requests and provider answers
InitSearch == InitFor(1, 0, "search")
NextSearch == WorkerStep(1, "search")
SpecSearch == InitSearch /\ [][NextSearch]_vars

\* lookups alone, over the ids of the "keys" profile
InitKeys == InitFor(MaxWorkers, 0, "keys")
NextKeys == \E w \in 1..MaxWorkers : Lookup(w, "keys")
SpecKeys == InitKeys /\ [][NextKeys]_vars

\* one worker whose steps are taken whenever the code bounds them: the
\* existence test and the writes are local, session.get and session.post
\* carry timeout=10 or timeout=25 and end in an answer or an exception.
\* model.generate_content(prompt) is called without a timeout, so a step
\* of the one-shot or of the batch translation is taken only if the
\* service answers
SpecLive ==
  /\ InitDoc
  /\ [][NextDoc]_vars
  /\ WF_vars(WorkerCheck(1))
  /\ WF_vars(WorkerSearch(1, "doc"))
  /\ WF_vars(WorkerDownload(1, "doc"))
  /\ WF_vars(WorkerOpen(1, "doc"))
  /\ WF_vars(WorkerWrite(1, "doc"))

\* ---------------------------------------------------------------------
\* Properties
\* ---------------------------------------------------------------------
Workers == DOMAIN wk
Servers == DOMAIN sv

PastCheck == {"search", "download", "oneshot", "os_open", "os_write", "batch",
              "b_open", "b_write"}

ActiveFor(key) == {w \in Workers : wk[w].cache_key = key /\ wk[w].pc \in PastCheck}

\* C1: for every cache key, at no time are two workers for that key
\* active past the existence check
C1_AtMostOneActive ==
  \A w \in Workers : wk[w].pc # "unborn" => Cardinality(ActiveFor(wk[w].cache_key)) <= 1

\* C2: whenever serve_subs() finds the file and serves it, what it serves
\* is the complete document a worker for that file wrote
C2_ServedComplete ==
  \A s \in Servers :
    sv[s].kind = "file" =>
      \E w \in Workers : /\ wk[w].pc # "unborn"
                         /\ final_path(w) = sv[s].filename
                         /\ wk[w].pc \in {"os_write", "b_write", "done"}
                         /\ wk[w].opens > 0
                         /\ wk[w].out = sv[s].body

\* C3: the artifact file of a key is opened for writing at most once
C3_WriteOnce ==
  \A f \in FileNames : files[f].opens <= 1

\* C4: a worker that finds its artifact present at the check returns at
\* once: nothing of it changes but its position, and the directory is
\* left alone
C4_Idempotent ==
  [][\A w \in Workers :
       (wk[w].pc = "check" /\ wk'[w] # wk[w] /\ files[final_path(w)].exists)
         => /\ wk'[w] = [wk[w] EXCEPT !.pc = "done", !.end = "exists"]
            /\ files' = files]_vars

C4_Witness ==
  \E w \in Workers : wk[w].end = "exists" /\ wk[w].url_en = NoStr /\ wk[w].calls = <<>>

Written(w) == wk[w].pc = "done" /\ wk[w].end \in {"oneshot", "batch"}

HeadsOf(subs) == [i \in 1..Len(subs) |-> subs[i].head]

\* C5: a written document has, after the provenance cue, exactly the cues
\* of the source, in order, with the source's index and timing lines
C5_CueCount ==
  \A w \in Workers :
    Written(w) =>
      LET src == HeadsOf(ParseSubs(wk[w].content))
          got == HeadsOf(ParseSubs(wk[w].out))
      IN Len(got) = Len(src) + 1 /\ Tail(got) = src

\* the service failed for batch b: every answer it gave was an error or an
\* array whose length is not the number of texts sent
BatchFailed(w, b) == \A n \in 1..Len(wk[w].blog[b].got) : wk[w].blog[b].got[n] # wk[w].blog[b].sent

\* the service succeeded for batch b: its last answer had the length sent
BatchSucceeded(w, b) ==
  LET got == wk[w].blog[b].got
  IN got # <<>> /\ got[Len(got)] = wk[w].blog[b].sent

\* the words of cue j of batch b in the pieces of the final document
WrittenWords(w, b, j) ==
  LET piece == wk[w].final_srt_content[1 + (b - 1) * batch_size + j]
  IN FlattenWords(SubSeq(piece, 3, Len(piece) - 1))

SourceWords(w, b, j) == ParseSubs(wk[w].content)[(b - 1) * batch_size + j].text

\* C6: when the service fails for one batch and succeeds for every other,
\* the cues of the failed batch carry the source text and all the others
\* the translation
C6_FallbackOnlyFailedBatch ==
  \A w \in Workers :
    (wk[w].pc = "done" /\ wk[w].end = "batch") =>
      \A b \in 1..Len(wk[w].blog) :
        (BatchFailed(w, b) /\ \A o \in 1..Len(wk[w].blog) : o # b => BatchSucceeded(w, o))
          => \A o \in 1..Len(wk[w].blog) : \A j \in 1..wk[w].blog[o].sent :
               WrittenWords(w, o, j) = IF o = b THEN SourceWords(w, o, j)
                                       ELSE TranslateWords(SourceWords(w, o, j))

Searched(w) == wk[w].pc # "unborn" /\ wk[w].calls # <<>>

HashMatched(w) ==
  /\ Searched(w)
  /\ wk[w].calls[1] = "hash"
  /\ ~wk[w].seen.hash.exc
  /\ wk[w].seen.hash.total_count > 0

\* C7 as claimed: a hash query with at least one match gives "Hash Match"
C7_HashPriority ==
  \A w \in Workers : HashMatched(w) => wk[w].method = <<"Hash Match">>

\* C7: a hash query with at least one match whose download link is obtained
\* gives "Hash Match" and that link, whatever the catalog holds, and the
\* catalog is queried only when the hash tier gave no reference
C7_HashPriorityWithLink ==
  \A w \in Workers :
    Searched(w) =>
      LET linked == HashMatched(w) /\ wk[w].seen.link[wk[w].seen.hash.data[1].file_id]
      IN /\ linked => /\ wk[w].method = <<"Hash Match">>
                      /\ wk[w].url_en = <<"dl", wk[w].seen.hash.data[1].file_id>>
         /\ (\E n \in 1..Len(wk[w].calls) : wk[w].calls[n] = "catalog")
              <=> ~linked

C7_Witness ==
  \E w \in Workers :
    /\ HashMatched(w)
    /\ wk[w].method = <<"Hash Match">>
    /\ wk[w].seen.cat.total_count = 2
    /\ wk[w].seen.cat.data[1].file_id # wk[w].seen.hash.data[1].file_id

\* a cue index, a timing line, a text that is not empty, a blank line at
\* the end
ValidSrt(d) ==
  /\ Len(d) >= 5
  /\ d[1].k = "idx" /\ d[2].k = "time"
  /\ d[3].k = "text" /\ d[3].w # <<>>
  /\ IsBlank(d[Len(d)]) /\ IsBlank(d[Len(d) - 1])

\* C8: a request never makes more than 60 checks, and one that ends
\* without the file has made exactly 60 and answers the placeholder, a
\* valid subtitle document, with status 200
C8_TimeoutPlaceholder ==
  \A s \in Servers :
    /\ sv[s].polls <= 60
    /\ sv[s].pc = "poll" => sv[s].polls < 60
    /\ (sv[s].pc = "done" /\ sv[s].kind # "file")
         => /\ sv[s].polls = 60
            /\ sv[s].kind = "placeholder"
            /\ sv[s].status = 200
            /\ sv[s].body = Placeholder
            /\ ValidSrt(sv[s].body)

C8_Witness ==
  \E s \in Servers : sv[s].pc = "done" /\ sv[s].kind = "placeholder" /\ sv[s].polls = 60

Aborted(w) == wk[w].pc = "done" /\ wk[w].end \in {"nosrc", "dlfail"}

\* C10: a worker that ends for want of a source or of its download has
\* opened no file and its last step leaves the directory alone; and a
\* worker that finds no artifact at its check goes on to the search
C10_AbortWritesNothing ==
  [][\A w \in Workers :
       /\ Aborted(w)' => (wk'[w].opens = 0 /\ (~Aborted(w) => files' = files))
       /\ (wk[w].pc = "check" /\ wk'[w] # wk[w] /\ ~files[final_path(w)].exists)
            => wk'[w] = [wk[w] EXCEPT !.pc = "search"]]_vars

C10_Witness ==
  \E v, w \in Workers :
    /\ v < w
    /\ Aborted(v)
    /\ wk[w].cache_key = wk[v].cache_key
    /\ ~files[final_path(v)].exists
    /\ wk[w].pc = "download"

\* C11: serve_subs() never changes the cache directory, whether it finds
\* the file or times out: a file appears in the directory only by a
\* worker's open(), whatever requests have timed out before
C11_PlaceholderNotPersisted ==
  [][/\ sv' # sv => files' = files
     /\ \A f \in FileNames :
          files'[f] # files[f]
            => \E w \in Workers : /\ wk[w].pc \in {"os_open", "os_write", "b_open", "b_write"}
                                 /\ final_path(w) = f
                                 /\ sv' = sv]_vars

\* a request for a file timed out and the next request for it got the file
C11_Witness ==
  \E s \in Servers :
    /\ sv[s].pc = "done" /\ sv[s].kind = "file"
    /\ sv[s].before = "placeholder"
    /\ sv[s].body # Placeholder

\* the next lookup is the one of the first thread not yet started
NextLookup(w) == wk[w].pc = "unborn" /\ \A v \in 1..(w - 1) : wk[v].pc # "unborn"

\* the lookup of request r by thread w, answering the descriptor url
LookupOf(w, r, url) ==
  /\ Lookup(w, "small")
  /\ wk'[w].imdb_id = r.parts[1]
  /\ wk'[w].video_hash = r.videoHash
  /\ wk'[w].filename_hint = r.filename
  /\ wk'[w].desc_url = url

\* C12: in every state, whatever the directory holds and wherever the
\* other workers are, subtitles() can answer each request at once, and
\* what it answers is the descriptor of the key derived from the request
\* and nothing else
C12_LookupNeverWaits ==
  \A w \in Workers :
    NextLookup(w) =>
      \A r \in Requests("small") :
        /\ ENABLED LookupOf(w, r, DescriptorUrl(KeyOfReq(r)))
        /\ \A q \in Requests("small") :
             KeyOfReq(q) # KeyOfReq(r)
               => ~ENABLED LookupOf(w, r, DescriptorUrl(KeyOfReq(q)))

\* a lookup has answered while an earlier worker for the same key was
\* writing, and the next one is due with the artifact in the directory
C12_Witness ==
  \E v, w \in Workers :
    /\ v < w
    /\ wk[v].pc = "os_write"
    /\ wk[w].pc = "check"
    /\ wk[w].cache_key = wk[v].cache_key
    /\ wk[w].desc_url = DescriptorUrl(wk[v].cache_key)
    /\ files[final_path(v)].exists

\* the file name a fetch of worker w's descriptor url asks serve_subs() for
Fetched(w) == serve_route(wk[w].desc_url)

OneShotBody(w) ==
  SubSeq(wk[w].out, Len(OneShotBanner(wk[w].method)), Len(wk[w].out))

\* C14: a one-shot output is accepted and written only if it contains a
\* timing line
C14_OneShotValidated ==
  \A w \in Workers :
    (wk[w].pc \in {"os_open", "os_write"} \/ (wk[w].pc = "done" /\ wk[w].end = "oneshot"))
      => HasTimestamp(OneShotBody(w))

\* the number of times generate_content was called for batch b
CallsForBatch(w, b) == Len(wk[w].blog[b].got)

\* C15: the translation service is called at most twice for a batch, the
\* call and one retry, before the source text is used
C15_BatchRetriedOnce ==
  \A w \in Workers : \A b \in 1..Len(wk[w].blog) : CallsForBatch(w, b) <= 2

\* the catalog tier gave worker w its reference
CatalogGave(w) ==
  /\ Searched(w)
  /\ wk[w].url_en # NoStr
  /\ \E n \in 1..Len(wk[w].calls) : wk[w].calls[n] = "catalog"

\* the release keywords found in worker w's filename hint
HintKeywords(w) ==
  SelectSeq(ReleaseKeywords, LAMBDA k : IsSubstr(k, clean_filename(wk[w].filename_hint)))

\* C16: the catalog tier tags its reference a release match only when the
\* hint holds a release keyword, and then the reference is the first
\* candidate whose file name holds the hint's keywords; otherwise it is
\* the first candidate, tagged "IMDB Generic"
C16_ReleaseMatch ==
  \A w \in Workers :
    CatalogGave(w) =>
      LET results == wk[w].seen.cat.data
          m == IF HintKeywords(w) # <<>> THEN FirstMatch(results, HintKeywords(w), 1) ELSE 0
      IN IF m > 0
         THEN /\ wk[w].method = <<"Release Match">> \o FlattenTokens(HintKeywords(w))
              /\ wk[w].url_en = <<"dl", results[m].file_id>>
         ELSE /\ wk[w].method = <<"IMDB Generic">>
              /\ wk[w].url_en = <<"dl", results[1].file_id>>

\* the lines of document d that are the cue number 0
ZeroCues(d) == SelectSeq(d, LAMBDA l : l.k = "idx" /\ l.n = 0)

C18_WorkerTerminates ==
  (wk[1].pc = "check") ~> (wk[1].pc = "done")

\* what subtitles() parsed from the request of worker w
Parsed(w) == <<wk[w].imdb_id, wk[w].season, wk[w].episode, wk[w].video_hash>>

\* C19: two lookups whose parsed (imdb id, season, episode, video hash)
\* differ have different cache keys
C19_KeysSeparate ==
  \A v, w \in Workers :
    (wk[v].pc # "unborn" /\ wk[w].pc # "unborn" /\ Parsed(v) # Parsed(w))
      => wk[v].cache_key # wk[w].cache_key

\* the text lines of piece n of the batch document, without the cue's
\* head and the blank line after it
PieceBody(w, n) ==
  LET piece == wk[w].final_srt_content[n]
  IN SubSeq(piece, 3, Len(piece) - 1)

\* C20: for every cue the batch path has wrapped, wrap_text gives back the
\* words of the cue's source and translated text in their order with no
\* empty line, and the cue's text in the document has no blank line
C20_WrapKeepsCue ==
  \A w \in Workers :
    \A n \in 2..Len(wk[w].final_srt_content) :
      /\ \A t \in {ParseSubs(wk[w].content)[n - 1].text,
                    TranslateWords(ParseSubs(wk[w].content)[n - 1].text)} :
           t # <<>> =>
             LET lines == wrap_text(t, WrapWidth)
             IN /\ FlattenTokens(lines) = t
                /\ \A i \in 1..Len(lines) : lines[i] # <<>>
      /\ \A i \in 1..Len(PieceBody(w, n)) : ~IsBlank(PieceBody(w, n)[i])

====
